---- MODULE Spec2Model ----
(***************************************************************************)
(* A model of Uri-X/Home_activity: the /analyze request handler and its    *)
(* timing harness (src/app.py) and the persistence helpers                 *)
(* (src/sqlachemy.py).                                                     *)
(***************************************************************************)
EXTENDS Integers, Sequences, FiniteSets, TLC

(***************************************************************************)
(* IEEE-754 binary64 arithmetic, as far as np.linspace uses it.            *)
(* A non-negative double is held in fixed point: [ip, hi, lo] stands for   *)
(*   ip + (hi * 2^LimbBits + lo) / 2^(2 * LimbBits),   0 <= hi, lo < Limb. *)
(* A double carries 1 + 2 * LimbBits = 53 significant bits, so a double    *)
(* whose integer part has b >= 1 bits has the low b - 1 bits of lo zero.   *)
(* Every operation computes the exact result and rounds it to nearest,     *)
(* ties to even.  The operands np.linspace meets here are 0 or >= 1, with  *)
(* integer parts below Limb and integer factors below 32.                  *)
(***************************************************************************)
LimbBits == 26

RECURSIVE Pow2(_)
Pow2(k) == IF k = 0 THEN 1 ELSE 2 * Pow2(k - 1)

Limb == Pow2(LimbBits)

RECURSIVE BitLen(_)
BitLen(k) == IF k = 0 THEN 0 ELSE 1 + BitLen(k \div 2)

\* The double nearest to the exact value ip + (hi, lo, g) / 2^(3 * LimbBits)
\* (+ something below the last bit of the guard limb g when sticky).
RoundNearestEven(ip, hi, lo, g, sticky) ==
    IF ip = 0 THEN [ip |-> 0, hi |-> hi, lo |-> lo]
    ELSE
    LET d    == BitLen(ip) - 1          \* the low bits of lo that do not fit
        unit == Pow2(d)
        low  == lo % unit
        kept == lo - low
        rb   == IF d = 0 THEN g \div (Limb \div 2) ELSE low \div (unit \div 2)
        st   == IF d = 0 THEN sticky \/ g % (Limb \div 2) # 0
                ELSE sticky \/ g # 0 \/ low % (unit \div 2) # 0
        lsb  == (lo \div unit) % 2
        up   == rb = 1 /\ (st \/ lsb = 1)
        lo2  == kept + unit
        hi2  == IF lo2 = Limb THEN hi + 1 ELSE hi
    IN  IF ~up THEN [ip |-> ip, hi |-> hi, lo |-> kept]
        ELSE [ip |-> IF hi2 = Limb THEN ip + 1 ELSE ip,
              hi |-> hi2 % Limb,
              lo |-> lo2 % Limb]

\* delta / div in binary64, for integers delta >= div >= 1: three limbs of
\* the quotient's fraction by long division, then rounding.
FloatDiv(delta, div) ==
    LET r0 == delta % div
        r1 == (r0 * Limb) % div
        r2 == (r1 * Limb) % div
        r3 == (r2 * Limb) % div
    IN  RoundNearestEven(delta \div div, (r0 * Limb) \div div,
                         (r1 * Limb) \div div, (r2 * Limb) \div div, r3 # 0)

\* float(k) * x in binary64, k a small non-negative integer.
FloatMul(x, k) ==
    LET l == x.lo * k
        h == x.hi * k + l \div Limb
    IN  RoundNearestEven(x.ip * k + h \div Limb, h % Limb, l % Limb, 0, FALSE)

\* x + float(a) in binary64, a a non-negative integer.
FloatAdd(x, a) == RoundNearestEven(x.ip + a, x.hi, x.lo, 0, FALSE)

\* Rounding to the nearest integer instead of flooring.
FloatRound(x) == IF x.hi >= Limb \div 2 THEN x.ip + 1 ELSE x.ip

\* np.floor followed by astype(int), for x >= 0.
FloatFloor(x) == x.ip

\* np.linspace with endpoint=False: num intervals, the last value not stop.
LinspaceOpen(start, stop, num) ==
    LET step == FloatDiv(stop - start, num)
    IN  [i \in 1..num |-> FloatFloor(FloatAdd(FloatMul(step, i - 1), start))]

\* np.linspace(start, stop, num, dtype=int).tolist() for stop > start,
\* num >= 2: y = arange(num) * (delta / div) + start, y[-1] = stop, floor.
Linspace(start, stop, num) ==
    LET step == FloatDiv(stop - start, num - 1)
    IN  [i \in 1..num |->
            IF i = num THEN stop
            ELSE FloatFloor(FloatAdd(FloatMul(step, i - 1), start))]

(***************************************************************************)
(* Strings are sequences of one-character strings, so that str.lower and   *)
(* str.strip can be modelled by what they do.                              *)
(***************************************************************************)
UpperChars == <<"A", "B", "C", "D", "E", "F", "G", "H", "I", "J", "K", "L", "M",
                "N", "O", "P", "Q", "R", "S", "T", "U", "V", "W", "X", "Y", "Z">>
LowerChars == <<"a", "b", "c", "d", "e", "f", "g", "h", "i", "j", "k", "l", "m",
                "n", "o", "p", "q", "r", "s", "t", "u", "v", "w", "x", "y", "z">>
Whitespace == {" ", "\t", "\n", "\r"}

\* str.lower()
Lower(s) ==
    [i \in 1..Len(s) |->
        IF \E j \in 1..Len(UpperChars) : UpperChars[j] = s[i]
        THEN LowerChars[CHOOSE j \in 1..Len(UpperChars) : UpperChars[j] = s[i]]
        ELSE s[i]]

\* str.strip(): leading and trailing whitespace removed, inner kept.
Strip(s) ==
    LET inked == {i \in 1..Len(s) : s[i] \notin Whitespace}
    IN  IF inked = {} THEN << >>
        ELSE SubSeq(s, CHOOSE i \in inked : \A j \in inked : i <= j,
                       CHOOSE i \in inked : \A j \in inked : j <= i)

\* The four functions imported from factorial.
linear_search == "linear_search"
bubble_sort   == "bubble_sort"
binary_search == "binary_search"
nested_loops  == "nested_loops"

\* The alias table, in insertion order: <<query string, function>>.
ALGORITHMS ==
    << <<<<"l","i","n","e","a","r">>,                         linear_search>>,
       <<<<"l","i","n","e","a","r","s","e","a","r","c","h">>, linear_search>>,
       <<<<"b","u","b","b","l","e">>,                         bubble_sort>>,
       <<<<"b","u","b","b","l","e","s","o","r","t">>,         bubble_sort>>,
       <<<<"b","u","b","b","l","e","_","s","o","r","t">>,     bubble_sort>>,
       <<<<"b","i","n","a","r","y">>,                         binary_search>>,
       <<<<"b","i","n","a","r","y","s","e","a","r","c","h">>, binary_search>>,
       <<<<"n","e","s","t","e","d">>,                         nested_loops>>,
       <<<<"n","e","s","t","e","d","l","o","o","p","s">>,     nested_loops>>,
       <<<<"e","x","p","o","n","e","n","t","i","a","l">>,     nested_loops>> >>

\* ALGORITHMS.keys(), in order.
AlgorithmKeys == [i \in 1..Len(ALGORITHMS) |-> ALGORITHMS[i][1]]

\* algo in ALGORITHMS
IsKey(a) == \E i \in 1..Len(ALGORITHMS) : ALGORITHMS[i][1] = a

\* ALGORITHMS[algo]
Lookup(a) == ALGORITHMS[CHOOSE i \in 1..Len(ALGORITHMS) : ALGORITHMS[i][1] = a][2]

\* The defaults and the safety limits of analyze.
DefaultAlgo  == <<"l","i","n","e","a","r">>
DefaultN     == 1000
DefaultSteps == 10
MinN     == 100
MaxN     == 20000
MinSteps == 4
MaxSteps == 30
\* The first sampled size.
FirstSize == 10

Max(a, b) == IF a >= b THEN a ELSE b
Min(a, b) == IF a <= b THEN a ELSE b

\* The upper limit forgotten.
ClampBelow(lo, v, hi) == Max(lo, v)

\* max(lo, min(v, hi))
Clamp(lo, v, hi) == Max(lo, Min(v, hi))

\* request.args.get(key, default=...)
ArgGet(a, key, default) == IF key \in DOMAIN a THEN a[key] ELSE default

(***************************************************************************)
(* Bounds of the model.                                                    *)
(***************************************************************************)
\* perf_counter is read as a whole number of ticks in 0..MaxClock.
MaxClock == 2
\* The sampler is checked for the SpanN + 1 lowest and the SpanN + 1 highest
\* valid max_n.
SpanN == 2000
\* binary_search_work is called directly on sorted arrays of up to MaxLen
\* elements drawn from 0..MaxVal - 1 (np.random.randint draws from
\* 0..99999), and by measure_times on arrays of the first SizesTried sizes
\* of the densest sampling.
MaxLen == 6
MaxVal == 3
SizesTried == 2
\* The persistence functions are called up to MaxCalls times.
MaxCalls == 3

\* The query strings tried for algo.
AlgoInputs == { <<" ", "B", "i", "n", "a", "r", "y", " ">>,
                <<"B", "U", "B", "B", "L", "E", "_", "S", "O", "R", "T">>,
                <<"l", "i", "n", "e", "a", "r", "s", "e", "a", "r", "c", "h", "\n">>,
                <<"e", "x", "p", "o", "n", "e", "n", "t", "i", "a", "l">>,
                <<"q", "u", "i", "c", "k", "s", "o", "r", "t">>,
                <<"b", "u", "b", "b", "l", "e", " ", "s", "o", "r", "t">>,
                << >> }
\* The integers tried for n and steps.
NInputs == {50, 108, 999999}
StepInputs == {1, 4, 5, 100}

ArgsOf(K, a, n, s) ==
    [k \in K |-> CASE k = "algo" -> a [] k = "n" -> n [] k = "steps" -> s]

\* The query strings a request may carry: any subset of the three
\* parameters, each with one of the values above.
Requests ==
    { ArgsOf(K, a, n, s) : K \in SUBSET {"algo", "n", "steps"},
                           a \in AlgoInputs, n \in NInputs, s \in StepInputs }

(***************************************************************************)
(* State.                                                                  *)
(***************************************************************************)
VARIABLES
    \* analyze
    pc,             \* where the handler is
    args,           \* request.args
    algo, n, steps, \* its locals
    func,
    response,       \* what it returns: the body and the HTTP status
    start_total, total_time,
    plots,          \* figures drawn
    \* measure_times
    calls,          \* invocations of measure_times by this request
    algorithm_func, max_n, num_steps,
    input_sizes, times,
    idx,            \* position of the for loop in input_sizes (from 1)
    start,
    now,            \* the last value time.perf_counter() returned
    ev,             \* what was done for the current size, in order
    measured        \* the sizes whose duration was appended, in order

VARIABLES
    \* binary_search_work, and lines 41-42 of measure_times that call it
    spc,            \* where the search is
    size,           \* the sampled size n the array is built for
    arr, target,
    left, right,
    found,          \* what binary_search_work returns
    iters           \* passes through the while loop

VARIABLES
    \* sqlachemy.py
    dpc,            \* where the running persistence function is
    op,             \* which function runs
    data,           \* its argument: the dict, or the id
    analysis,       \* the AlgorithmAnalysis instance built
    session,        \* the Session: open or closed, and what it holds unflushed
    tbl,            \* the rows of algorithm_analysis
    next_id,        \* the table's AUTO_INCREMENT counter
    exc,            \* the exception in flight
    fault,          \* the statement that raised in this call
    result,         \* the value the function returns
    outcome,        \* how the call ended
    dev,            \* what was done with the session in this call, in order
    tbl0,           \* the rows when the call began
    dcalls          \* calls made

webVars == <<pc, args, algo, n, steps, func, response, start_total, total_time,
             plots, calls, algorithm_func, max_n, num_steps, input_sizes,
             times, idx, start, now, ev, measured>>

searchVars == <<spc, size, arr, target, left, right, found, iters>>

dbVars == <<dpc, op, data, analysis, session, tbl, next_id, exc, fault, result,
            outcome, dev, tbl0, dcalls>>

vars == <<webVars, searchVars, dbVars>>

NoResponse == [status |-> "none"]

\* time.perf_counter(): monotonic, so a read never returns less than the
\* one before.
ClockReads == now..MaxClock

InitWeb ==
    /\ pc = "idle"
    /\ args = << >>
    /\ algo = << >> /\ n = 0 /\ steps = 0
    /\ func = "none"
    /\ response = NoResponse
    /\ start_total = 0 /\ total_time = 0
    /\ plots = 0
    /\ calls = 0
    /\ algorithm_func = "none" /\ max_n = 0 /\ num_steps = 0
    /\ input_sizes = << >> /\ times = << >>
    /\ idx = 0
    /\ start = 0
    /\ now = 0
    /\ ev = << >>
    /\ measured = << >>

\* analyze, lines 82-91: the clock is read, the parameters are fetched,
\* normalised and clamped.
Receive ==
    /\ pc = "idle"
    /\ \E a \in Requests, t \in ClockReads :
          /\ args' = a
          /\ now' = t
          /\ start_total' = t
          /\ algo' = Strip(Lower(ArgGet(a, "algo", DefaultAlgo)))
          /\ n' = Clamp(MinN, ArgGet(a, "n", DefaultN), MaxN)
          /\ steps' = Clamp(MinSteps, ArgGet(a, "steps", DefaultSteps), MaxSteps)
    /\ pc' = "check"
    /\ UNCHANGED <<func, response, total_time, plots, calls, algorithm_func,
                   max_n, num_steps, input_sizes, times, idx, start, ev, measured>>
    /\ UNCHANGED <<searchVars, dbVars>>

\* analyze, lines 93-97: an unknown algorithm is answered with 400.
Reject ==
    /\ pc = "check"
    /\ ~IsKey(algo)
    /\ response' = [status |-> "error", code |-> 400,
                    message |-> [text |-> "Unknown algorithm. Supported: ",
                                 joined |-> AlgorithmKeys]]
    /\ pc' = "done"
    /\ UNCHANGED <<args, algo, n, steps, func, start_total, total_time, plots,
                   calls, algorithm_func, max_n, num_steps, input_sizes, times,
                   idx, start, now, ev, measured>>
    /\ UNCHANGED <<searchVars, dbVars>>

\* An unknown algorithm measured as the default one instead of rejected.
DispatchDefault ==
    /\ pc = "check"
    /\ func' = (IF IsKey(algo) THEN Lookup(algo) ELSE linear_search)
    /\ algorithm_func' = func'
    /\ max_n' = n
    /\ num_steps' = steps
    /\ calls' = calls + 1
    /\ pc' = "sample"
    /\ UNCHANGED <<args, algo, n, steps, response, start_total, total_time,
                   plots, input_sizes, times, idx, start, now, ev, measured>>
    /\ UNCHANGED <<searchVars, dbVars>>

\* analyze, lines 99-102: the function is looked up and measure_times is
\* called with it and the clamped limits.
Dispatch ==
    /\ pc = "check"
    /\ IsKey(algo)
    /\ func' = Lookup(algo)
    /\ algorithm_func' = Lookup(algo)
    /\ max_n' = n
    /\ num_steps' = steps
    /\ calls' = calls + 1
    /\ pc' = "sample"
    /\ UNCHANGED <<args, algo, n, steps, response, start_total, total_time,
                   plots, input_sizes, times, idx, start, now, ev, measured>>
    /\ UNCHANGED <<searchVars, dbVars>>

\* measure_times, lines 34-36.
SampleSizes ==
    /\ pc = "sample"
    /\ input_sizes' = Linspace(FirstSize, max_n, num_steps)
    /\ times' = << >>
    /\ idx' = 1
    /\ pc' = "prepare"
    /\ UNCHANGED <<args, algo, n, steps, func, response, start_total,
                   total_time, plots, calls, algorithm_func, max_n, num_steps,
                   start, now, ev, measured>>
    /\ UNCHANGED <<searchVars, dbVars>>

\* What lines 40-56 do for one size before the clock is read: for binary
\* search the sorted array is built and the target chosen, then (for every
\* variant) the closure timed_func is defined.  Here only the order of
\* these steps is kept; what the array holds and what the search does with
\* it (its result is dropped by timed_func) is PrepareBinary and the Search
\* actions below.
Preparation(f) ==
    IF f = binary_search THEN <<"sorted_array", "target", "def_timed_func">>
    ELSE <<"def_timed_func">>

\* A timed_func that builds its array itself, inside the timed region.
TimedFuncBuilding(f) ==
    IF f = binary_search THEN <<"sorted_array", "target", "binary_search_work">>
    ELSE <<f>>

\* What timed_func() does when called: one call of the algorithm.
TimedFunc(f) ==
    IF f = binary_search THEN <<"binary_search_work">> ELSE <<f>>

\* measure_times, lines 38-56: the next size is taken and its data prepared.
Prepare ==
    /\ pc = "prepare"
    /\ idx <= Len(input_sizes)
    /\ ev' = Preparation(algorithm_func)
    /\ pc' = "start"
    /\ UNCHANGED <<args, algo, n, steps, func, response, start_total,
                   total_time, plots, calls, algorithm_func, max_n, num_steps,
                   input_sizes, times, idx, start, now, measured>>
    /\ UNCHANGED <<searchVars, dbVars>>

\* measure_times, line 59.
ReadStart ==
    /\ pc = "start"
    /\ \E t \in ClockReads : now' = t /\ start' = t
    /\ ev' = Append(ev, "perf_counter")
    /\ pc' = "call"
    /\ UNCHANGED <<args, algo, n, steps, func, response, start_total,
                   total_time, plots, calls, algorithm_func, max_n, num_steps,
                   input_sizes, times, idx, measured>>
    /\ UNCHANGED <<searchVars, dbVars>>

\* measure_times, line 60.
Invoke ==
    /\ pc = "call"
    /\ ev' = ev \o TimedFunc(algorithm_func)
    /\ pc' = "end"
    /\ UNCHANGED <<args, algo, n, steps, func, response, start_total,
                   total_time, plots, calls, algorithm_func, max_n, num_steps,
                   input_sizes, times, idx, start, now, measured>>
    /\ UNCHANGED <<searchVars, dbVars>>

\* The operands swapped.
ElapsedSwapped(end, st) == st - end

\* end - start, line 63.
Elapsed(end, st) == end - st

\* measure_times, lines 61-63: the clock is read again and the duration
\* appended; the loop moves on.
ReadEnd ==
    /\ pc = "end"
    /\ \E end \in ClockReads :
          /\ now' = end
          /\ times' = Append(times, Elapsed(end, start))
    /\ ev' = Append(ev, "perf_counter")
    /\ measured' = Append(measured, input_sizes[idx])
    /\ idx' = idx + 1
    /\ pc' = "prepare"
    /\ UNCHANGED <<args, algo, n, steps, func, response, start_total,
                   total_time, plots, calls, algorithm_func, max_n, num_steps,
                   input_sizes, start>>
    /\ UNCHANGED <<searchVars, dbVars>>

\* measure_times, line 65, and analyze, lines 104-135: the two lists are
\* returned, plotted and sent back with the limits that were used.  Of the
\* response, the status, the context's request fields and the sizes are
\* kept; the rounded times and the encoded figure are not.
Respond ==
    /\ pc = "prepare"
    /\ idx > Len(input_sizes)
    /\ plots' = plots + 1
    /\ \E t \in ClockReads : now' = t /\ total_time' = t - start_total
    /\ response' = [status |-> "success", code |-> 200,
                    context |-> [algorithm |-> algo, max_n |-> n, steps |-> steps],
                    data |-> [input_sizes |-> input_sizes]]
    /\ pc' = "done"
    /\ UNCHANGED <<args, algo, n, steps, func, start_total, calls,
                   algorithm_func, max_n, num_steps, input_sizes, times, idx,
                   start, ev, measured>>
    /\ UNCHANGED <<searchVars, dbVars>>


(***************************************************************************)
(* binary_search_work, and the data measure_times prepares for it.         *)
(***************************************************************************)
\* The non-decreasing sequences of len values in lo..MaxVal - 1: what
\* sorted(...) returns for the arrays np.random.randint can draw.
RECURSIVE SortedArrays(_, _)
SortedArrays(len, lo) ==
    IF len = 0 THEN {<< >>}
    ELSE UNION { { <<v>> \o a : a \in SortedArrays(len - 1, v) } :
                 v \in lo..(MaxVal - 1) }

\* The array and the targets of the documented test.
KnownArray == <<1, 3, 5, 7, 9>>
KnownTargets == {4, 9}

\* The first sizes measure_times samples when they lie closest together.
SmallSizes ==
    { Linspace(FirstSize, MinN, MaxSteps)[k] : k \in 1..SizesTried }

\* arr[i] with Python's index from 0.
At(a, i) == a[i + 1]

\* One past the largest element.
PastLast(a) == a[Len(a)] + 1

\* arr[-1]
Last(a) == a[Len(a)]

\* left + (right - left) // 2
Mid(l, r) == l + (r - l) \div 2

\* left = mid: the range stops shrinking.
MoveLeftStuck(mid) == mid

\* left = mid + 1
MoveLeft(mid) == mid + 1

\* right = mid - 1
MoveRight(mid) == mid - 1

SearchIdle ==
    /\ spc = "idle" /\ size = 0 /\ arr = << >> /\ target = 0
    /\ left = 0 /\ right = 0 /\ found = -1 /\ iters = 0

\* measure_times, lines 41-42: the sorted array of n random values, and its
\* last element as the target.
PrepareBinary ==
    /\ spc = "prepare"
    /\ \E a \in SortedArrays(size, 0) : arr' = a /\ target' = Last(a)
    /\ spc' = "entry"
    /\ UNCHANGED <<size, left, right, found, iters>>
    /\ UNCHANGED <<webVars, dbVars>>

\* binary_search_work, line 68.
SearchEnter ==
    /\ spc = "entry"
    /\ left' = 0
    /\ right' = Len(arr) - 1
    /\ spc' = "loop"
    /\ UNCHANGED <<size, arr, target, found, iters>>
    /\ UNCHANGED <<webVars, dbVars>>

\* binary_search_work, lines 69-72: the middle element is the target.
SearchHit ==
    /\ spc = "loop"
    /\ left <= right
    /\ At(arr, Mid(left, right)) = target
    /\ found' = Mid(left, right)
    /\ iters' = iters + 1
    /\ spc' = "done"
    /\ UNCHANGED <<size, arr, target, left, right>>
    /\ UNCHANGED <<webVars, dbVars>>

\* binary_search_work, lines 73-74: the target lies to the right.
SearchRight ==
    /\ spc = "loop"
    /\ left <= right
    /\ At(arr, Mid(left, right)) < target
    /\ left' = MoveLeft(Mid(left, right))
    /\ iters' = iters + 1
    /\ UNCHANGED <<spc, size, arr, target, right, found>>
    /\ UNCHANGED <<webVars, dbVars>>

\* binary_search_work, lines 75-76: the target lies to the left.
SearchLeft ==
    /\ spc = "loop"
    /\ left <= right
    /\ At(arr, Mid(left, right)) > target
    /\ right' = MoveRight(Mid(left, right))
    /\ iters' = iters + 1
    /\ UNCHANGED <<spc, size, arr, target, left, found>>
    /\ UNCHANGED <<webVars, dbVars>>

\* binary_search_work, line 77: the range is empty.
SearchMiss ==
    /\ spc = "loop"
    /\ left > right
    /\ found' = -1
    /\ spc' = "done"
    /\ UNCHANGED <<size, arr, target, left, right, iters>>
    /\ UNCHANGED <<webVars, dbVars>>

(***************************************************************************)
(* sqlachemy.py: the table and the three functions that use a session.     *)
(* A Python value is tagged with its type, since data may hold anything.   *)
(***************************************************************************)
IntV(k)  == [t |-> "int", int |-> k]
StrV(str) == [t |-> "str", str |-> str]
NoneV    == [t |-> "none"]

\* data.get(key, default)
DictGet(d, key, default) == IF key \in DOMAIN d THEN d[key] ELSE default

\* The dicts save_analysis_result is tried with: the sample of the module's
\* own test, one with only the texts, two whose numbers are no numbers, and
\* one without algo.
SampleData ==
    [algo |-> StrV("Bubble Sort"), items |-> IntV(1000), steps |-> IntV(10),
     start_time |-> IntV(36458241), end_time |-> IntV(239759234),
     total_time_ms |-> IntV(3), time_complexity |-> StrV("O(n^2)"),
     path_to_graph |-> StrV("/graphs/bubble_sort_20240204_123456_abc123.png")]

DataInputs ==
    { SampleData,
      [algo |-> StrV("binary"), time_complexity |-> StrV("O(log n)")],
      [SampleData EXCEPT !.items = StrV("many")],
      [SampleData EXCEPT !.steps = NoneV],
      [items |-> IntV(1000), steps |-> IntV(5), time_complexity |-> StrV("O(n)")] }

\* The exception int(x) raises, if any; the texts tried are no numerals.
IntRaises(x) ==
    CASE x.t = "int"  -> "none"
      [] x.t = "str"  -> "ValueError"
      [] x.t = "none" -> "TypeError"

\* The columns converted with int(data.get(column, 0)), in the order of
\* lines 98-102.
IntColumns == <<"items", "steps", "start_time", "end_time", "total_time_ms">>

\* The first exception building the record raises (lines 96-105), or "none".
ConstructRaises(d) ==
    LET bad == {i \in 1..Len(IntColumns) :
                   IntRaises(DictGet(d, IntColumns[i], IntV(0))) # "none"}
    IN  IF bad = {} THEN "none"
        ELSE IntRaises(DictGet(d, IntColumns[CHOOSE i \in bad : \A j \in bad : i <= j],
                               IntV(0)))

\* AlgorithmAnalysis(...), lines 96-105.
Construct(d) ==
    [id              |-> 0,      \* None until the row is inserted
     algo            |-> DictGet(d, "algo", NoneV),
     items           |-> DictGet(d, "items", IntV(0)).int,
     steps           |-> DictGet(d, "steps", IntV(0)).int,
     start_time      |-> DictGet(d, "start_time", IntV(0)).int,
     end_time        |-> DictGet(d, "end_time", IntV(0)).int,
     total_time_ms   |-> DictGet(d, "total_time_ms", IntV(0)).int,
     time_complexity |-> DictGet(d, "time_complexity", StrV("")),
     path_to_graph   |-> DictGet(d, "path_to_graph", StrV(""))]

\* A column declared nullable=False holds None.
NotNullViolated(a) == a.algo = NoneV \/ a.time_complexity = NoneV

\* The row an instance becomes when it is inserted with the given id
\* (created_at, which no function here reads, is left out).
Row(a, id) == [a EXCEPT !.id = id]

\* except ValueError
CatchesValueError(e) == e = "ValueError"

\* except Exception: every exception the statements of the try block raise
\* is an Exception.
Catches(e) ==
    e \in {"ValueError", "TypeError", "InvalidRequestError", "IntegrityError",
           "OperationalError"}

\* Where control goes when a statement of the try block raises e.
Handler(e) == IF Catches(e) THEN "except" ELSE "finally"

\* Session()
OpenSession == [open |-> TRUE, pending |-> {}]

\* session.rollback()
Rollback(s) == [s EXCEPT !.pending = {}]

\* The session left open.
CloseForgotten(s) == s

\* session.close()
Close(s) == [s EXCEPT !.open = FALSE]

NoResult == [status |-> "none"]
NoAnalysis == [algo |-> NoneV]

DbIdle ==
    /\ dpc = "idle" /\ op = "none" /\ data = << >>
    /\ analysis = NoAnalysis
    /\ session = [open |-> FALSE, pending |-> {}]
    /\ tbl = {} /\ next_id = 1
    /\ exc = "none" /\ fault = "none"
    /\ result = NoResult /\ outcome = "none"
    /\ dev = << >> /\ tbl0 = {} /\ dcalls = 0

\* What every call does first: session = Session().
Enter(f, d) ==
    /\ dpc \in {"idle", "returned"}
    /\ dcalls < MaxCalls
    /\ dcalls' = dcalls + 1
    /\ op' = f
    /\ data' = d
    /\ session' = OpenSession
    /\ dev' = <<"open">>
    /\ analysis' = NoAnalysis
    /\ exc' = "none" /\ fault' = "none"
    /\ result' = NoResult /\ outcome' = "running"
    /\ tbl0' = tbl
    /\ UNCHANGED <<tbl, next_id>>
    /\ UNCHANGED <<webVars, searchVars>>

\* save_analysis_result, line 93.
CallSave ==
    \E d \in DataInputs : Enter("save_analysis_result", d) /\ dpc' = "construct"

\* save_analysis_result, lines 96-105.
SaveConstruct ==
    /\ dpc = "construct"
    /\ IF ConstructRaises(data) = "none"
       THEN /\ analysis' = Construct(data)
            /\ dpc' = "add"
            /\ UNCHANGED <<exc, fault>>
       ELSE /\ exc' = ConstructRaises(data)
            /\ fault' = "construct"
            /\ dpc' = Handler(ConstructRaises(data))
            /\ UNCHANGED analysis
    /\ UNCHANGED <<op, data, session, tbl, next_id, result, outcome, dev, tbl0,
                   dcalls>>
    /\ UNCHANGED <<webVars, searchVars>>

\* save_analysis_result, line 108: the instance becomes pending, or the
\* session refuses it.
SaveAdd ==
    /\ dpc = "add"
    /\ \E ok \in BOOLEAN :
          IF ok
          THEN /\ session' = [session EXCEPT !.pending = @ \cup {analysis}]
               /\ dev' = Append(dev, "add")
               /\ dpc' = "commit"
               /\ UNCHANGED <<exc, fault>>
          ELSE /\ exc' = "InvalidRequestError"
               /\ fault' = "add"
               /\ dpc' = Handler("InvalidRequestError")
               /\ UNCHANGED <<session, dev>>
    /\ UNCHANGED <<op, data, analysis, tbl, next_id, result, outcome, tbl0,
                   dcalls>>
    /\ UNCHANGED <<webVars, searchVars>>

\* save_analysis_result, line 109: the pending instance is inserted and the
\* transaction committed, unless a NOT NULL column is None or the database
\* fails; a failed insert may still use up an id.
SaveCommit ==
    /\ dpc = "commit"
    /\ \E ok \in BOOLEAN :
          IF ok /\ ~NotNullViolated(analysis)
          THEN /\ tbl' = tbl \cup {Row(analysis, next_id)}
               /\ analysis' = Row(analysis, next_id)
               /\ next_id' = next_id + 1
               /\ session' = [session EXCEPT !.pending = {}]
               /\ dev' = Append(dev, "commit")
               /\ dpc' = "committed"
               /\ UNCHANGED <<exc, fault>>
          ELSE /\ exc' = IF NotNullViolated(analysis) THEN "IntegrityError"
                         ELSE "OperationalError"
               /\ fault' = "commit"
               /\ next_id' \in {next_id, next_id + 1}
               /\ dpc' = Handler(exc')
               /\ UNCHANGED <<tbl, analysis, session, dev>>
    /\ UNCHANGED <<op, data, result, outcome, tbl0, dcalls>>
    /\ UNCHANGED <<webVars, searchVars>>

\* save_analysis_result, lines 112-121: the id is read and the success
\* response built.
SaveReturn ==
    /\ dpc = "committed"
    /\ result' = [status |-> "success", status_code |-> 201,
                  id |-> analysis.id,
                  message |-> [text |-> "Algorithm analysis saved successfully with ID: ",
                               id |-> analysis.id],
                  data |-> analysis]
    /\ dpc' = "finally"
    /\ UNCHANGED <<op, data, analysis, session, tbl, next_id, exc, fault,
                   outcome, dev, tbl0, dcalls>>
    /\ UNCHANGED <<webVars, searchVars>>

\* save_analysis_result, lines 123-129: the exception is caught, the
\* session rolled back and the error response built.
SaveExcept ==
    /\ dpc = "except"
    /\ op = "save_analysis_result"
    /\ session' = Rollback(session)
    /\ dev' = Append(dev, "rollback")
    /\ result' = [status |-> "error", status_code |-> 500,
                  message |-> [text |-> "Failed to save analysis: ", e |-> exc]]
    /\ exc' = "none"
    /\ dpc' = "finally"
    /\ UNCHANGED <<op, data, analysis, tbl, next_id, fault, outcome, tbl0,
                   dcalls>>
    /\ UNCHANGED <<webVars, searchVars>>

\* What a finally block does: the session is closed, then the pending
\* return value is returned or the pending exception propagates.
Finally(f) ==
    /\ dpc = "finally"
    /\ op = f
    /\ session' = Close(session)
    /\ dev' = Append(dev, "close")
    /\ outcome' = IF exc = "none" THEN "returned" ELSE "raised"
    /\ dpc' = "returned"
    /\ UNCHANGED <<op, data, analysis, tbl, next_id, exc, fault, result, tbl0,
                   dcalls>>
    /\ UNCHANGED <<webVars, searchVars>>

\* save_analysis_result, lines 130-131.
SaveFinally == Finally("save_analysis_result")

\* get_analysis_by_id, line 144.
CallGetById ==
    \E id \in 0..(MaxCalls + 1) :
        Enter("get_analysis_by_id", [analysis_id |-> id]) /\ dpc' = "query"

\* get_analysis_by_id, lines 146-158: the row is looked up and answered
\* with 200 or 404, or the query fails.
GetQuery ==
    /\ dpc = "query"
    /\ op = "get_analysis_by_id"
    /\ \E ok \in BOOLEAN :
          IF ok
          THEN /\ result' =
                     IF \E r \in tbl : r.id = data.analysis_id
                     THEN [status |-> "success", status_code |-> 200,
                           data |-> CHOOSE r \in tbl : r.id = data.analysis_id]
                     ELSE [status |-> "error", status_code |-> 404,
                           message |-> [text |-> "Analysis not found",
                                        id |-> data.analysis_id]]
               /\ dev' = Append(dev, "query")
               /\ dpc' = "finally"
               /\ UNCHANGED <<exc, fault>>
          ELSE /\ exc' = "OperationalError"
               /\ fault' = "query"
               /\ dpc' = Handler("OperationalError")
               /\ UNCHANGED <<result, dev>>
    /\ UNCHANGED <<op, data, analysis, session, tbl, next_id, outcome, tbl0,
                   dcalls>>
    /\ UNCHANGED <<webVars, searchVars>>

\* The except blocks of the two readers, lines 159-164 and 185-190: the
\* exception is caught and the error response built.
ReadExcept(f, text) ==
    /\ dpc = "except"
    /\ op = f
    /\ result' = [status |-> "error", status_code |-> 500,
                  message |-> [text |-> text, e |-> exc]]
    /\ exc' = "none"
    /\ dpc' = "finally"
    /\ UNCHANGED <<op, data, analysis, session, tbl, next_id, fault, outcome,
                   dev, tbl0, dcalls>>
    /\ UNCHANGED <<webVars, searchVars>>

\* get_analysis_by_id, lines 159-164.
GetExcept == ReadExcept("get_analysis_by_id", "Error retrieving analysis: ")

\* get_analysis_by_id, lines 165-166.
GetFinally == Finally("get_analysis_by_id")

\* get_all_analyses, line 176.
CallGetAll == Enter("get_all_analyses", << >>) /\ dpc' = "query"

\* get_all_analyses, lines 178-184: every row is read, or the query fails.
AllQuery ==
    /\ dpc = "query"
    /\ op = "get_all_analyses"
    /\ \E ok \in BOOLEAN :
          IF ok
          THEN /\ result' = [status |-> "success", status_code |-> 200,
                             count |-> Cardinality(tbl), data |-> tbl]
               /\ dev' = Append(dev, "query")
               /\ dpc' = "finally"
               /\ UNCHANGED <<exc, fault>>
          ELSE /\ exc' = "OperationalError"
               /\ fault' = "query"
               /\ dpc' = Handler("OperationalError")
               /\ UNCHANGED <<result, dev>>
    /\ UNCHANGED <<op, data, analysis, session, tbl, next_id, outcome, tbl0,
                   dcalls>>
    /\ UNCHANGED <<webVars, searchVars>>

\* get_all_analyses, lines 185-190.
AllExcept == ReadExcept("get_all_analyses", "Error retrieving analyses: ")

\* get_all_analyses, lines 191-192.
AllFinally == Finally("get_all_analyses")

(***************************************************************************)
(* Specifications.                                                         *)
(***************************************************************************)
\* One request to /analyze, from its arrival to its response.
Init == InitWeb /\ SearchIdle /\ DbIdle

Next == \/ Receive \/ Reject \/ Dispatch \/ SampleSizes \/ Prepare
        \/ ReadStart \/ Invoke \/ ReadEnd \/ Respond

Spec == Init /\ [][Next]_vars

\* The sampler alone: measure_times entered with every valid pair of limits
\* up to the bound.
InitSampler ==
    /\ pc = "sample"
    /\ args = << >>
    /\ algo = << >> /\ n = 0 /\ steps = 0
    /\ func = "none"
    /\ response = NoResponse
    /\ start_total = 0 /\ total_time = 0
    /\ plots = 0
    /\ calls = 1
    /\ algorithm_func = linear_search
    /\ max_n \in (MinN..(MinN + SpanN)) \cup ((MaxN - SpanN)..MaxN)
    /\ num_steps \in MinSteps..MaxSteps
    /\ input_sizes = << >> /\ times = << >>
    /\ idx = 0
    /\ start = 0
    /\ now = 0
    /\ ev = << >>
    /\ measured = << >>
    /\ SearchIdle /\ DbIdle

SpecSampler == InitSampler /\ [][SampleSizes]_vars

\* binary_search_work: called directly on any sorted array with any
\* target, or by measure_times on the data it prepares for a sampled size.
InitSearch ==
    /\ InitWeb /\ DbIdle
    /\ left = 0 /\ right = 0 /\ found = -1 /\ iters = 0
    /\ \/ /\ spc = "entry"
          /\ size = 0
          /\ \/ /\ arr \in UNION {SortedArrays(l, 0) : l \in 0..MaxLen}
                /\ target \in (-1)..MaxVal
             \/ /\ arr = KnownArray
                /\ target \in KnownTargets
       \/ /\ spc = "prepare"
          /\ size \in SmallSizes
          /\ arr = << >>
          /\ target = 0

NextSearch == \/ PrepareBinary \/ SearchEnter \/ SearchHit \/ SearchRight
              \/ SearchLeft \/ SearchMiss

SpecSearch == InitSearch /\ [][NextSearch]_vars

\* The persistence functions, called one after the other once a
\* measurement has been taken.
InitDb ==
    /\ pc = "done"
    /\ args = << >>
    /\ algo = DefaultAlgo /\ n = DefaultN /\ steps = MinSteps
    /\ func = linear_search
    /\ response = NoResponse
    /\ start_total = 0 /\ total_time = 0
    /\ plots = 1
    /\ calls = 1
    /\ algorithm_func = linear_search /\ max_n = DefaultN /\ num_steps = MinSteps
    /\ input_sizes = Linspace(FirstSize, DefaultN, MinSteps)
    /\ times \in [1..MinSteps -> {0, MaxClock}]
    /\ idx = MinSteps + 1
    /\ start = 0
    /\ now = MaxClock
    /\ ev = << >>
    /\ measured = input_sizes
    /\ SearchIdle /\ DbIdle

NextDb == \/ CallSave \/ SaveConstruct \/ SaveAdd \/ SaveCommit \/ SaveReturn
          \/ SaveExcept \/ SaveFinally
          \/ CallGetById \/ GetQuery \/ GetExcept \/ GetFinally
          \/ CallGetAll \/ AllQuery \/ AllExcept \/ AllFinally

SpecDb == InitDb /\ [][NextDb]_vars
(***************************************************************************)
(* The claims.                                                             *)
(***************************************************************************)
\* measure_times has built its list of sizes.
Sampled == pc = "prepare" /\ idx = 1

\* C1: for every valid max_n and steps, the sizes measure_times samples are
\* exactly `steps` many, non-decreasing, the first 10 and the last max_n.
C1_SizesShape ==
    Sampled =>
        /\ Len(input_sizes) = num_steps
        /\ \A i \in 1..(Len(input_sizes) - 1) : input_sizes[i] <= input_sizes[i + 1]
        /\ input_sizes[1] = 10
        /\ input_sizes[Len(input_sizes)] = max_n

\* C1's case: the largest request, 30 sizes from 10 to 20000, the second
\* already 699.
C1_Witness ==
    /\ Sampled
    /\ max_n = 20000 /\ num_steps = 30
    /\ Len(input_sizes) = 30
    /\ input_sizes[2] = 699
    /\ input_sizes[30] = 20000

\* The exact interpolation 10 + i * (max_n - 10) / (steps - 1) lies within
\* a half of the integer k (a tie may go either way).
IsNearest(k, i) ==
    LET den == num_steps - 1
        num == 10 * den + i * (max_n - 10)
    IN  /\ 2 * (k * den - num) <= den
        /\ 2 * (num - k * den) <= den

\* C8 as stated: every sampled size is the linear interpolation rounded to
\* the nearest integer.
C8_NearestInteger ==
    Sampled => \A i \in 0..(num_steps - 1) : IsNearest(input_sizes[i + 1], i)

\* C8 as amended: every sampled size is the linear interpolation truncated
\* to an integer, the interpolation being computed in binary64: the size is
\* the floor of the exact value, or, where the exact value is itself an
\* integer before the last position, possibly one less; the last is max_n.
C8_Truncated ==
    Sampled =>
        \A i \in 0..(num_steps - 1) :
            LET den   == num_steps - 1
                whole == 10 + (i * (max_n - 10)) \div den
                exact == (i * (max_n - 10)) % den = 0
            IN  /\ ~exact => input_sizes[i + 1] = whole
                /\ exact => input_sizes[i + 1] \in {whole - 1, whole}
                /\ i \in {0, den} => input_sizes[i + 1] = whole

\* C8's case: 23 sizes up to 108; the twelfth interpolates to 59 exactly
\* and is sampled as 58, the third to 18.9 and is sampled as 18.
C8_Witness ==
    /\ Sampled
    /\ max_n = 108 /\ num_steps = 23
    /\ input_sizes[12] = 58
    /\ input_sizes[3] = 18

\* C2: whatever integers the request gives for n and steps, measure_times
\* is called with them clamped to [100, 20000] and [4, 30], the request
\* succeeds, and the response's context reports the clamped values.
C2_Clamped ==
    /\ (calls > 0 /\ "n" \in DOMAIN args) =>
          max_n = (IF args["n"] < 100 THEN 100
                   ELSE IF args["n"] > 20000 THEN 20000 ELSE args["n"])
    /\ (calls > 0 /\ "steps" \in DOMAIN args) =>
          num_steps = (IF args["steps"] < 4 THEN 4
                       ELSE IF args["steps"] > 30 THEN 30 ELSE args["steps"])
    /\ (calls > 0 /\ pc = "done") =>
          /\ response.status = "success"
          /\ response.context.max_n = max_n
          /\ response.context.steps = num_steps

\* C2's case: n = 999999 and steps = 1 answered as 20000 and 4.
C2_Witness ==
    /\ pc = "done"
    /\ DOMAIN args = {"algo", "n", "steps"}
    /\ args["n"] = 999999 /\ args["steps"] = 1
    /\ response.status = "success"
    /\ response.context.max_n = 20000 /\ response.context.steps = 4
    /\ Len(input_sizes) = 4 /\ input_sizes[4] = 20000

\* C3: a request whose normalised algo is no key of ALGORITHMS is answered
\* with status "error" and 400, the message listing every key, without
\* measure_times called, anything timed or plotted; one whose algo is a key
\* has measure_times called exactly once, with the function the key maps to.
C3_UnknownRejected ==
    LET known == \E i \in 1..Len(ALGORITHMS) : ALGORITHMS[i][1] = algo
    IN  /\ calls <= 1
        /\ (pc # "idle" /\ ~known) =>
              /\ calls = 0 /\ plots = 0 /\ times = << >> /\ ev = << >>
              /\ pc = "done" =>
                    /\ response.status = "error" /\ response.code = 400
                    /\ \A i \in 1..Len(ALGORITHMS) :
                          \E j \in 1..Len(response.message.joined) :
                              response.message.joined[j] = ALGORITHMS[i][1]
        /\ (pc \notin {"idle", "check"} /\ known) =>
              /\ calls = 1
              /\ \E i \in 1..Len(ALGORITHMS) :
                    ALGORITHMS[i] = <<algo, algorithm_func>>

\* C3's case: algo=quicksort has been answered with 400.
C3_Witness ==
    /\ pc = "done"
    /\ "algo" \in DOMAIN args
    /\ args["algo"] = <<"q", "u", "i", "c", "k", "s", "o", "r", "t">>
    /\ response.status = "error" /\ response.code = 400
    /\ Len(response.message.joined) = 10
    /\ calls = 0

\* C4: the durations and the sizes run in step: one duration per size, in
\* the order of the sizes, none skipped or repeated, each >= 0; when
\* measure_times returns, both lists have `steps` elements.
C4_OneDurationPerSize ==
    /\ Len(times) = Len(measured)
    /\ Len(times) <= Len(input_sizes)
    /\ \A i \in 1..Len(times) : measured[i] = input_sizes[i] /\ times[i] >= 0
    /\ (calls > 0 /\ pc \notin {"sample", "done"}) => Len(times) = idx - 1
    /\ (calls > 0 /\ pc = "done") =>
          Len(times) = num_steps /\ Len(input_sizes) = num_steps

\* C4's case: a request for 30 sizes has returned, one of its durations
\* positive.
C4_Witness ==
    /\ pc = "done"
    /\ num_steps = 30
    /\ Len(times) = 30 /\ Len(input_sizes) = 30
    /\ times[30] > 0

\* What is to happen for one size, in order.
C5_Order(f) ==
    IF f = "binary_search"
    THEN <<"sorted_array", "target", "def_timed_func", "perf_counter",
           "binary_search_work", "perf_counter">>
    ELSE <<"def_timed_func", "perf_counter", f, "perf_counter">>

\* C5: for every size and variant, the data is prepared first, then the
\* clock is read, then the algorithm is called exactly once, then the clock
\* is read again; nothing is prepared between the two reads.
C5_PreparedBeforeTimed ==
    calls > 0 =>
        /\ Len(ev) <= Len(C5_Order(algorithm_func))
        /\ ev = SubSeq(C5_Order(algorithm_func), 1, Len(ev))
        /\ pc = "call" => ev[Len(ev)] = "perf_counter"
        /\ Len(times) > 0 /\ pc \in {"prepare", "done"} =>
              ev = C5_Order(algorithm_func)

\* C5's case: binary search has been timed for a size.
C5_Witness ==
    /\ algorithm_func = "binary_search"
    /\ Len(times) = 2
    /\ pc = "prepare"
    /\ ev = <<"sorted_array", "target", "def_timed_func", "perf_counter",
              "binary_search_work", "perf_counter">>

\* C6: on a sorted array binary_search_work ends, after at most as many
\* passes as the length has binary digits, with an index of the target when
\* the target occurs and with -1 when it does not.
C6_SearchCorrect ==
    /\ iters <= BitLen(Len(arr))
    /\ spc = "loop" => ENABLED NextSearch
    /\ spc = "done" =>
          IF \E i \in 1..Len(arr) : arr[i] = target
          THEN found \in 0..(Len(arr) - 1) /\ arr[found + 1] = target
          ELSE found = -1

\* C6's case: 9 found at index 4 of [1, 3, 5, 7, 9].
C6_Witness ==
    /\ spc = "done"
    /\ arr = <<1, 3, 5, 7, 9>> /\ target = 9
    /\ found = 4

\* C9: the array measure_times prepares for a sampled size n >= 10 has n
\* elements and the target is its last one, so the timed search returns an
\* index holding the target, never -1.
C9_TargetPresent ==
    (size > 0 /\ spc # "prepare") =>
        /\ size >= 10
        /\ Len(arr) = size
        /\ target = arr[size]
        /\ \A i \in 1..(size - 1) : arr[i] <= arr[i + 1]
        /\ spc = "done" =>
              /\ found \in 0..(size - 1)
              /\ arr[found + 1] = target

\* C9's case: the maximum occurs more than once, and the search returns an
\* index other than the last.
C9_Witness ==
    /\ spc = "done"
    /\ size = 10
    /\ arr[9] = arr[10] /\ arr[1] < arr[10]
    /\ found # 9 /\ found >= 0

\* save_analysis_result has returned to, or raised into, its caller.
SaveEnded == op = "save_analysis_result" /\ dpc = "returned"

\* C7: when building, adding or committing the record fails,
\* save_analysis_result raises nothing and returns status "error" with a
\* message, and the table is as it was; when the commit succeeds it returns
\* status "success" with the positive id of the row stored.  The measurement
\* is never touched.
C7_SaveIsolated ==
    /\ [](SaveEnded =>
            /\ outcome = "returned"
            /\ fault \in {"construct", "add", "commit"} =>
                  /\ result.status = "error"
                  /\ "message" \in DOMAIN result
                  /\ tbl = tbl0
            /\ fault = "none" =>
                  /\ result.status = "success"
                  /\ result.id > 0
                  /\ \E r \in tbl \ tbl0 : r.id = result.id
                  /\ Cardinality(tbl) = Cardinality(tbl0) + 1)
    /\ [][UNCHANGED <<input_sizes, times>>]_vars

\* C7's case: a commit has failed and the caller holds the error.
C7_Witness ==
    /\ SaveEnded
    /\ fault = "commit"
    /\ result.status = "error"
    /\ tbl = tbl0
    /\ Cardinality(tbl) = 1

\* How often e occurs in the sequence s.
Occurrences(s, e) == Cardinality({i \in 1..Len(s) : s[i] = e})

\* C10: every call of the three functions opens one session and closes it
\* once, as the last thing before it returns, on the success path and after
\* a failure; a failure in save_analysis_result is rolled back before the
\* close; no call ends with its session open or with a record pending.
C10_SessionClosed ==
    /\ dpc # "idle" => Occurrences(dev, "open") = 1 /\ dev[1] = "open"
    /\ dpc \notin {"idle", "returned"} =>
          session.open /\ Occurrences(dev, "close") = 0
    /\ dpc = "returned" =>
          /\ Occurrences(dev, "close") = 1
          /\ dev[Len(dev)] = "close"
          /\ ~session.open
          /\ session.pending = {}
          /\ (op = "save_analysis_result" /\ fault # "none") =>
                dev[Len(dev) - 1] = "rollback"

\* C10's case: an added record's commit failed; the session was rolled back
\* and then closed.
C10_Witness ==
    /\ dpc = "returned"
    /\ op = "save_analysis_result"
    /\ fault = "commit"
    /\ dev = <<"open", "add", "rollback", "close">>
====
